---- MODULE Spec2Model ----
(***************************************************************************)
(* Verification model of the single-particle ICP-MS analysis code:         *)
(*   - accumulate_detections_scipy        (src/nanopart/util.py)           *)
(*   - calculate_limits and the rolling statistics (src/spcal/calc.py)     *)
(*   - the batch worker ProcessThread.run and the batch dialog             *)
(*     (src/spcal/gui/batch.py, src/nanopart/gui/batch.py)                 *)
(*   - poisson_limits (src/nanopart/util.py) and the particle functions    *)
(*     (src/spcal/particle.py, src/nanopart/util.py)                       *)
(* Each component has its own specification (SpecAccumulate, SpecLimits,   *)
(* SpecBatch, SpecPoisson, SpecParticle, SpecRolling); the variables of    *)
(* the other components stay at their idle values.  Arrays are 1-indexed   *)
(* sequences; index values that the code exposes (region rows) are         *)
(* converted to the code's 0-based indices.                                *)
(***************************************************************************)
EXTENDS Integers, Sequences, FiniteSets, TLC

VARIABLES
    \* ---- accumulate_detections_scipy(y, limit_detection, limit_accumulation)
    y,                   \* the signal
    limit_detection,     \* Ld
    limit_accumulation,  \* Lc
    acc_pc,              \* "call" before the call, "returned" after it
    acc_ret,             \* what the call returned
    \* ---- ProcessThread (batch worker) and BatchProcessDialog
    variant,             \* "spcal" or "nanopart": which gui/batch.py runs
    infiles,             \* ProcessThread.infiles (file names, here 1..n)
    file_kind,           \* what each listed file holds: data, nothing, or unreadable
    method_kws,          \* which calibration inputs are set (TRUE) or None (FALSE)
    cell_kws,            \* which cell inputs are set (TRUE) or None (FALSE)
    run_pc,              \* position of ProcessThread.run
    job,                 \* index in infiles of the loop's current file
    results,             \* the current job's results dict (which parts it holds)
    raised,              \* the exception that left ProcessThread.run, if any
    interruption,        \* QThread.isInterruptionRequested()
    emitted,             \* signals emitted by the worker, in order
    pending,             \* emitted signals queued for the dialog's slots
    written,             \* output files written by the export
    thread,              \* BatchProcessDialog.thread: "None" or "ProcessThread"
    completed_files,     \* BatchProcessDialog.completed_files
    failed_files,        \* BatchProcessDialog.failed_files
    batches,             \* number of batches started so far
    \* ---- calculate_limits(responses, method, sigma, error_rates, window)
    responses,           \* the signal
    method,              \* the method string
    sigma,               \* the Gaussian threshold term
    window,              \* [none |-> TRUE] for None, else the window size n
    lim_pc,              \* "call" before the call, "returned" after it
    lim_ret,             \* what the call returned or raised
    \* ---- poisson_limits(ub, epsilon) of nanopart/util.py
    poi_ub,              \* the mean of the background (fixed-point)
    poi_epsilon,         \* the low-count correction (fixed-point)
    poi_pc,              \* "call" before the call, "returned" after it
    poi_ret,             \* what the call returned
    \* ---- the particle functions (spcal/particle.py, nanopart/util.py)
    eq_args,             \* the arguments: signal and calibration parameters
    eq_pc,               \* "call" before the call, else the function called
    eq_ret,              \* what the call returned
    \* ---- moving_mean, moving_median, moving_std (spcal/calc.py)
    roll_x,              \* the array
    roll_n,              \* the window size
    roll_pc,             \* "call", the loop of moving_median, or the function returned
    med_sort,            \* moving_median: the list `sort`
    med_start,           \* moving_median: the loop variable `start`
    med_r,               \* moving_median: the values stored in r so far
    roll_ret             \* what the call returned

acc_vars == <<y, limit_detection, limit_accumulation, acc_pc, acc_ret>>

worker_vars == <<run_pc, job, results, raised, emitted, written>>

dialog_vars == <<thread, completed_files, failed_files, batches>>

batch_vars == <<variant, infiles, file_kind, method_kws, cell_kws, worker_vars, interruption,
                pending, dialog_vars>>

lim_vars == <<responses, method, sigma, window, lim_pc, lim_ret>>

poi_vars == <<poi_ub, poi_epsilon, poi_pc, poi_ret>>

eq_vars == <<eq_args, eq_pc, eq_ret>>

roll_vars == <<roll_x, roll_n, roll_pc, med_sort, med_start, med_r, roll_ret>>

vars == <<acc_vars, batch_vars, lim_vars, poi_vars, eq_vars, roll_vars>>

\* ------------------------------------------------------------------ bounds
MaxLen == 5     \* longest signal given to accumulate
MaxVal == 2     \* largest sample value / limit given to accumulate
NFiles == 2     \* most files in one batch
MaxBatches == 2 \* most batches started from the dialog
MaxSig == 3     \* longest signal given to calculate_limits
MaxWindow == 3  \* largest window given to calculate_limits
Scale == 100    \* fixed-point resolution: the real r is the integer floor(r * Scale)
MaxQuarters == 48 \* largest mean given to poisson_limits, in quarters of a count
MaxEvents == 3  \* longest signal given to the particle functions
MaxRoll == 4    \* longest array given to the rolling functions

\* ------------------------------------------------------------ array helpers
RECURSIVE SumOver(_, _)
\* sum of f over the finite index set S
SumOver(f, S) ==
    IF S = {} THEN 0
    ELSE LET i == CHOOSE k \in S : TRUE IN f[i] + SumOver(f, S \ {i})

MaxOf(S) == CHOOSE m \in S : \A k \in S : k <= m
MinOf(S) == CHOOSE m \in S : \A k \in S : m <= k

\* np.arange(a, b): a, a+1, ..., b-1 (empty when b <= a)
arange(a, b) == [k \in 1..(IF b > a THEN b - a ELSE 0) |-> a + k - 1]

\* ----------------------------------------------- accumulate_detections_scipy
\* a run of the mask starts at i
RunStart(mask, i) == mask[i] /\ (i = 1 \/ ~mask[i - 1])

\* scipy.ndimage.label on a 1-d boolean array: the maximal runs of TRUE are
\* numbered 1..n from left to right, FALSE samples are 0
ndi_label(mask) ==
    [labels |-> [i \in 1..Len(mask) |->
                    IF mask[i]
                    THEN Cardinality({j \in 1..i : RunStart(mask, j)})
                    ELSE 0],
     n |-> Cardinality({j \in 1..Len(mask) : RunStart(mask, j)})]

\* scipy.ndimage.maximum(y, labels, index=L) for one label L
ndi_maximum(sig, labels, L) ==
    MaxOf({sig[i] : i \in {k \in 1..Len(sig) : labels[k] = L}})

\* a plausible slip: the sum also takes the sample after the run (inclusive end)
ndi_sum_inclusive_end(sig, labels, L) ==
    LET S == {k \in 1..Len(sig) : labels[k] = L}
        T == IF S # {} /\ MaxOf(S) < Len(sig) THEN S \cup {MaxOf(S) + 1} ELSE S
    IN  SumOver(sig, T)

\* scipy.ndimage.sum(y, labels, index=L) for one label L
ndi_sum(sig, labels, L) ==
    SumOver(sig, {k \in 1..Len(sig) : labels[k] = L})

\* the body of accumulate_detections_scipy; the function has no raise
\* statement, so "raised" is always "none"
accumulate_detections_scipy(sig, ld, lc) ==
    LET lab  == ndi_label([i \in 1..Len(sig) |-> sig[i] > lc])
        idx0 == arange(1, lab.n)
    IN  IF Len(idx0) = 0
        THEN [sums |-> <<>>, labels |-> <<>>, raised |-> "none"]
        ELSE LET Detected(L) == ndi_maximum(sig, lab.labels, L) > ld
                 idx  == SelectSeq(idx0, Detected)
                 keep == {idx[k] : k \in 1..Len(idx)}
             IN  [sums   |-> [k \in 1..Len(idx) |-> ndi_sum(sig, lab.labels, idx[k])],
                  labels |-> [i \in 1..Len(sig) |->
                                 IF lab.labels[i] \in keep THEN lab.labels[i] ELSE 0],
                  raised |-> "none"]

\* the values of the batch variables while no dialog exists
NoResults == [present |-> FALSE, calibrated |-> FALSE, cell |-> FALSE]
NoException == [stage |-> "none", kind |-> "none"]

BatchIdle ==
    /\ variant = "spcal"
    /\ infiles = <<>>
    /\ file_kind = <<>>
    /\ method_kws = [dwelltime |-> TRUE, others |-> TRUE]
    /\ cell_kws = [cell_diameter |-> FALSE, molar_mass |-> FALSE]
    /\ run_pc = "notstarted"
    /\ job = 1
    /\ results = NoResults
    /\ raised = NoException
    /\ interruption = FALSE
    /\ emitted = <<>>
    /\ pending = <<>>
    /\ written = {}
    /\ thread = "None"
    /\ completed_files = <<>>
    /\ failed_files = <<>>
    /\ batches = 0

\* the values of the calculate_limits variables while it is not under study
LimitsIdle ==
    /\ responses = <<>>
    /\ method = "Automatic"
    /\ sigma = 3
    /\ window = [none |-> TRUE, n |-> 0]
    /\ lim_pc = "idle"
    /\ lim_ret = [raised |-> "none"]

\* the values of the accumulate variables while accumulate is not under study
AccumulateIdle ==
    /\ y = <<>>
    /\ limit_detection = 0
    /\ limit_accumulation = 0
    /\ acc_pc = "idle"
    /\ acc_ret = [sums |-> <<>>, labels |-> <<>>, raised |-> "none"]

\* the values of the poisson_limits variables while it is not under study
PoissonIdle ==
    /\ poi_ub = 0
    /\ poi_epsilon = 0
    /\ poi_pc = "idle"
    /\ poi_ret = [sc |-> 0, sd |-> 0]

\* the values of the particle function variables while they are not under study
ParticleIdle ==
    /\ eq_args = [signal |-> <<>>]
    /\ eq_pc = "idle"
    /\ eq_ret = <<>>

\* the values of the rolling function variables while they are not under study
RollingIdle ==
    /\ roll_x = <<>>
    /\ roll_n = 1
    /\ roll_pc = "idle"
    /\ med_sort = <<>>
    /\ med_start = 0
    /\ med_r = <<>>
    /\ roll_ret = <<>>

Signals == UNION {[1..n -> 0..MaxVal] : n \in 0..MaxLen}

NoReturn == [sums |-> <<>>, labels |-> <<>>, raised |-> "none"]

InitAccumulate ==
    /\ RollingIdle
    /\ y \in Signals
    /\ limit_detection \in 0..MaxVal
    /\ limit_accumulation \in 0..MaxVal
    /\ acc_pc = "call"
    /\ acc_ret = NoReturn
    /\ BatchIdle
    /\ LimitsIdle
    /\ PoissonIdle
    /\ ParticleIdle

\* the call accumulate_detections_scipy(y, limit_detection, limit_accumulation)
Accumulate ==
    /\ acc_pc = "call"
    /\ acc_ret' = accumulate_detections_scipy(y, limit_detection, limit_accumulation)
    /\ acc_pc' = "returned"
    /\ UNCHANGED <<y, limit_detection, limit_accumulation>>
    /\ UNCHANGED <<batch_vars, lim_vars, poi_vars, eq_vars, roll_vars>>

NextAccumulate == Accumulate

SpecAccumulate == InitAccumulate /\ [][NextAccumulate]_vars

\* ------------------------------------------------ batch worker and dialog
\* How a call into another module can end: it returns, raises a ValueError
\* (the only exception ProcessThread.run catches) or raises anything else
\* (OSError from a missing or unwritable file, KeyError, TypeError,
\* ZeroDivisionError, ...).
CallOutcomes == {"ok", "ValueError", "Error"}

Stages == {"process", "detect", "calibrate", "export"}

\* a plausible slip: the `continue` after processFailed.emit is missing, so
\* the job falls through to the export
EmitFailedNoContinue ==
    /\ emitted' = Append(emitted, <<"processFailed", infiles[job]>>)
    /\ pending' = Append(pending, <<"processFailed", infiles[job]>>)
    /\ run_pc' = "export"
    /\ UNCHANGED <<job, results, raised, written>>

\* self.processFailed.emit(infile.name); continue
EmitFailed ==
    /\ emitted' = Append(emitted, <<"processFailed", infiles[job]>>)
    /\ pending' = Append(pending, <<"processFailed", infiles[job]>>)
    /\ job' = job + 1
    /\ run_pc' = "loop"
    /\ results' = NoResults
    /\ UNCHANGED <<raised, written>>

\* an exception that no except clause of run matches leaves run: the thread
\* ends without emitting anything for the current file
Propagate(stage, kind) ==
    /\ raised' = [stage |-> stage, kind |-> kind]
    /\ run_pc' = "crashed"
    /\ UNCHANGED <<job, results, emitted, pending, written>>

\* for infile, outfile in zip(...): if self.isInterruptionRequested(): break
RunLoop ==
    /\ run_pc = "loop"
    /\ IF job > Len(infiles) \/ interruption
       THEN run_pc' = "finished"
       ELSE run_pc' = "process"
    /\ UNCHANGED <<job, results, raised, emitted, pending, written>>
    /\ UNCHANGED <<variant, infiles, file_kind, method_kws, cell_kws, interruption, dialog_vars>>

\* what a listed file holds: numeric data, no data (no rows, or no named
\* columns), or nothing that can be opened (missing file, directory, no
\* permission)
FileKinds == {"data", "empty", "unreadable"}

\* how process_file_detections ends for a file.  A file that cannot be opened
\* raises OSError in np.genfromtxt (spcal) and in path.open (nanopart).  A
\* file without data raises the ValueError of responses.size == 0 in spcal;
\* in nanopart read_nanoparticle_file indexes data[:, 1] of the empty array
\* before that test is reached.  With data, the limit estimation returns or
\* raises.
ReadOutcomes(v, kind) ==
    IF kind = "unreadable" THEN {"OSError"}
    ELSE IF kind = "empty" THEN (IF v = "spcal" THEN {"ValueError"} ELSE {"Error"})
    ELSE CallOutcomes

\* try: results = process_file_detections(...) except ValueError: ...
\* first part: the file is read and calculate_limits is called
ProcessFileDetections ==
    /\ run_pc = "process"
    /\ \E outcome \in ReadOutcomes(variant, file_kind[job]) :
          CASE outcome = "ok" ->
                  /\ run_pc' = "detect"
                  /\ UNCHANGED <<job, results, raised, emitted, pending, written>>
            [] outcome = "ValueError" -> EmitFailed
            [] OTHER -> Propagate("process", outcome)
    /\ UNCHANGED <<variant, infiles, file_kind, method_kws, cell_kws, interruption, dialog_vars>>

\* second part of process_file_detections, inside the same try block:
\* accumulate_detections with the limits, then the results dict is returned
AccumulateDetections ==
    /\ run_pc = "detect"
    /\ \E outcome \in CallOutcomes :
          CASE outcome = "ok" ->
                  /\ results' = [present |-> TRUE, calibrated |-> FALSE, cell |-> FALSE]
                  /\ run_pc' = "calibrate"
                  /\ UNCHANGED <<job, raised, emitted, pending, written>>
            [] outcome = "ValueError" -> EmitFailed
            [] OTHER -> Propagate("detect", outcome)
    /\ UNCHANGED <<variant, infiles, file_kind, method_kws, cell_kws, interruption, dialog_vars>>

\* any(x is None for x in self.method_kws[name].values()), once "time" is set
AnyNone == ~method_kws.others

\* how the calibration of the spcal worker ends for one element:
\*   the "time" entry (events * dwelltime), the None test, self.method(...)
MethodOutcomes ==
    IF ~method_kws.dwelltime THEN {"TypeError"}
    ELSE IF AnyNone THEN {"omitted"}
    ELSE CallOutcomes

\*   the cell results, after the calibration ended with `mo`
CellOutcomes(mo) ==
    IF ~cell_kws.cell_diameter THEN {"none"}
    ELSE IF ~cell_kws.molar_mass THEN {"warned"}
    ELSE IF mo # "ok" THEN {"KeyError"}     \* results[name]["masses"] is absent
    ELSE CallOutcomes

\* the second try block of spcal's ProcessThread.run
CalibrateSpcal ==
    /\ variant = "spcal"
    /\ run_pc = "calibrate"
    /\ \E mo \in MethodOutcomes :
          CASE mo = "TypeError" -> Propagate("calibrate", "TypeError")
            [] mo = "ValueError" -> EmitFailed
            [] mo = "Error" -> Propagate("calibrate", "Error")
            [] OTHER ->
                  \E co \in CellOutcomes(mo) :
                      CASE co = "KeyError" -> Propagate("calibrate", "KeyError")
                        [] co = "ValueError" -> EmitFailed
                        [] co = "Error" -> Propagate("calibrate", "Error")
                        [] OTHER ->
                              /\ results' = [present |-> TRUE,
                                             calibrated |-> (mo = "ok"),
                                             cell |-> (co = "ok")]
                              /\ run_pc' = "export"
                              /\ UNCHANGED <<job, raised, emitted, pending, written>>
    /\ UNCHANGED <<variant, infiles, file_kind, method_kws, cell_kws, interruption, dialog_vars>>

\* the second try block of nanopart's ProcessThread.run: result.update(self.method(...))
CalibrateNanopart ==
    /\ variant = "nanopart"
    /\ run_pc = "calibrate"
    /\ \E mo \in CallOutcomes :
          CASE mo = "ok" ->
                  /\ results' = [present |-> TRUE, calibrated |-> TRUE, cell |-> FALSE]
                  /\ run_pc' = "export"
                  /\ UNCHANGED <<job, raised, emitted, pending, written>>
            [] mo = "ValueError" -> EmitFailed
            [] mo = "Error" -> Propagate("calibrate", "Error")
    /\ UNCHANGED <<variant, infiles, file_kind, method_kws, cell_kws, interruption, dialog_vars>>

\* try: export_nanoparticle_results(outfile, results) except ValueError: ...
\* and, when it returned, self.processComplete.emit(infile.name)
Export ==
    /\ run_pc = "export"
    /\ \E outcome \in CallOutcomes :
          CASE outcome = "ok" ->
                  /\ written' = written \cup {infiles[job]}
                  /\ emitted' = Append(emitted, <<"processComplete", infiles[job]>>)
                  /\ pending' = Append(pending, <<"processComplete", infiles[job]>>)
                  /\ job' = job + 1
                  /\ run_pc' = "loop"
                  /\ results' = NoResults
                  /\ UNCHANGED raised
            [] outcome = "ValueError" -> EmitFailed
            [] outcome = "Error" -> Propagate("export", "Error")
    /\ UNCHANGED <<variant, infiles, file_kind, method_kws, cell_kws, interruption, dialog_vars>>

\* QThread.isRunning(): run has been entered and has not ended
isRunning == run_pc \in {"loop"} \cup Stages

\* BatchProcessDialog.startProcess: a new ProcessThread over the listed files
startProcess ==
    /\ batches < MaxBatches
    /\ batches' = batches + 1
    /\ completed_files' = <<>>
    /\ failed_files' = <<>>
    /\ thread' = "ProcessThread"
    /\ run_pc' = "loop"
    /\ job' = 1
    /\ results' = NoResults
    /\ raised' = NoException
    /\ emitted' = <<>>
    /\ written' = {}
    /\ interruption' = FALSE
    /\ UNCHANGED <<variant, infiles, file_kind, method_kws, cell_kws, pending>>

\* a plausible slip: the button starts a batch whether or not one is running
buttonProcessAlwaysStarts ==
    \/ startProcess
    \/ /\ thread # "None"
       /\ isRunning
       /\ interruption' = TRUE
       /\ UNCHANGED <<variant, infiles, file_kind, method_kws, cell_kws, worker_vars,
                      pending, dialog_vars>>

\* BatchProcessDialog.buttonProcess ("Start Batch" / "Cancel Batch")
buttonProcess ==
    \/ /\ thread = "None"
       /\ startProcess
    \/ /\ thread # "None"
       /\ isRunning
       /\ interruption' = TRUE
       /\ UNCHANGED <<variant, infiles, file_kind, method_kws, cell_kws, worker_vars,
                      pending, dialog_vars>>

\* the slot BatchProcessDialog.processComplete (spcal), advanceProgress (nanopart)
processComplete ==
    /\ pending # <<>>
    /\ Head(pending)[1] = "processComplete"
    /\ pending' = Tail(pending)
    /\ completed_files' = IF variant = "spcal"
                          THEN Append(completed_files, Head(pending)[2])
                          ELSE completed_files
    /\ UNCHANGED <<variant, infiles, file_kind, method_kws, cell_kws, worker_vars,
                   interruption, thread, failed_files, batches>>

\* the slot BatchProcessDialog.processFailed (spcal), advanceProgress (nanopart)
processFailed ==
    /\ pending # <<>>
    /\ Head(pending)[1] = "processFailed"
    /\ pending' = Tail(pending)
    /\ failed_files' = IF variant = "spcal"
                       THEN Append(failed_files, Head(pending)[2])
                       ELSE failed_files
    /\ UNCHANGED <<variant, infiles, file_kind, method_kws, cell_kws, worker_vars,
                   interruption, thread, completed_files, batches>>

\* the slot BatchProcessDialog.finishProcess, on the thread's finished signal
\* (queued behind the worker's own signals)
finishProcess ==
    /\ thread # "None"
    /\ run_pc \in {"finished", "crashed"}
    /\ pending = <<>>
    /\ thread' = "None"
    /\ UNCHANGED <<variant, infiles, file_kind, method_kws, cell_kws, worker_vars,
                   interruption, pending, completed_files, failed_files, batches>>

Booleans == {TRUE, FALSE}

\* the dialog with its list of files and the inputs the worker is built from
InitBatch ==
    /\ RollingIdle
    /\ AccumulateIdle
    /\ LimitsIdle
    /\ PoissonIdle
    /\ ParticleIdle
    /\ variant \in {"spcal", "nanopart"}
    /\ infiles \in {[i \in 1..n |-> i] : n \in 1..NFiles}
    /\ file_kind \in [1..Len(infiles) -> FileKinds]
    /\ method_kws \in IF variant = "spcal"
                      THEN [dwelltime : Booleans, others : Booleans]
                      ELSE {[dwelltime |-> TRUE, others |-> TRUE]}
    /\ cell_kws \in IF variant = "spcal"
                    THEN [cell_diameter : Booleans, molar_mass : Booleans]
                    ELSE {[cell_diameter |-> FALSE, molar_mass |-> FALSE]}
    /\ run_pc = "notstarted"
    /\ job = 1
    /\ results = NoResults
    /\ raised = NoException
    /\ interruption = FALSE
    /\ emitted = <<>>
    /\ pending = <<>>
    /\ written = {}
    /\ thread = "None"
    /\ completed_files = <<>>
    /\ failed_files = <<>>
    /\ batches = 0

NextBatch ==
    \/ (buttonProcess /\ UNCHANGED <<acc_vars, lim_vars, poi_vars, eq_vars, roll_vars>>)
    \/ (RunLoop /\ UNCHANGED <<acc_vars, lim_vars, poi_vars, eq_vars, roll_vars>>)
    \/ (ProcessFileDetections /\ UNCHANGED <<acc_vars, lim_vars, poi_vars, eq_vars, roll_vars>>)
    \/ (AccumulateDetections /\ UNCHANGED <<acc_vars, lim_vars, poi_vars, eq_vars, roll_vars>>)
    \/ (CalibrateSpcal /\ UNCHANGED <<acc_vars, lim_vars, poi_vars, eq_vars, roll_vars>>)
    \/ (CalibrateNanopart /\ UNCHANGED <<acc_vars, lim_vars, poi_vars, eq_vars, roll_vars>>)
    \/ (Export /\ UNCHANGED <<acc_vars, lim_vars, poi_vars, eq_vars, roll_vars>>)
    \/ (processComplete /\ UNCHANGED <<acc_vars, lim_vars, poi_vars, eq_vars, roll_vars>>)
    \/ (processFailed /\ UNCHANGED <<acc_vars, lim_vars, poi_vars, eq_vars, roll_vars>>)
    \/ (finishProcess /\ UNCHANGED <<acc_vars, lim_vars, poi_vars, eq_vars, roll_vars>>)

SpecBatch == InitBatch /\ [][NextBatch]_vars

\* ------------------------------------------------------------ calculate_limits
\* Real numbers are fixed-point: the real r is the integer floor(r * Scale).
\* Sums, counts and window sizes are plain integers.
RECURSIVE isqrt_between(_, _, _)
\* the largest r in lo..hi with r * r <= n
isqrt_between(n, lo, hi) ==
    IF lo >= hi THEN lo
    ELSE LET mid == (lo + hi + 1) \div 2
         IN  IF mid * mid <= n
             THEN isqrt_between(n, mid, hi)
             ELSE isqrt_between(n, lo, mid - 1)

\* np.sqrt of a fixed-point value
np_sqrt(v) ==
    LET n == v * Scale
    IN  isqrt_between(n, 0, IF n < 46340 THEN n ELSE 46340)

\* bisect.insort(sort, v): v goes after the elements <= v
insort(srt, v) ==
    LET k == Cardinality({i \in 1..Len(srt) : srt[i] <= v})
    IN  SubSeq(srt, 1, k) \o <<v>> \o SubSeq(srt, k + 1, Len(srt))

\* a plausible slip: bisect_right, the 0-based index after the elements <= v
bisect_right(srt, v) == Cardinality({i \in 1..Len(srt) : srt[i] <= v})

\* bisect.bisect_left(sort, v): the 0-based index of the first element >= v
bisect_left(srt, v) == Cardinality({i \in 1..Len(srt) : srt[i] < v})

\* del sort[k] for the 0-based index k
del_at(srt, k) == SubSeq(srt, 1, k) \o SubSeq(srt, k + 2, Len(srt))

RECURSIVE sorted(_)
\* sorted(x)
sorted(x) ==
    IF x = <<>> THEN <<>>
    ELSE insort(sorted(SubSeq(x, 1, Len(x) - 1)), x[Len(x)])

\* np.cumsum(x)
cumsum(x) == [i \in 1..Len(x) |-> SumOver(x, 1..i)]

\* np.mean(x), np.median(x), np.std(x) of an integer array
np_mean(x) == (SumOver(x, 1..Len(x)) * Scale) \div Len(x)

np_median(x) ==
    LET srt == sorted(x)
        n   == Len(x)
    IN  IF n % 2 = 1
        THEN srt[(n + 1) \div 2] * Scale
        ELSE ((srt[n \div 2] + srt[n \div 2 + 1]) * Scale) \div 2

\* the population variance (mean of squares minus squared mean) from the
\* sum S and the sum of squares Q of n values
variance(n, S, Q) == ((n * Q - S * S) * Scale) \div (n * n)

np_std(x) ==
    LET sq == [i \in 1..Len(x) |-> x[i] * x[i]]
    IN  np_sqrt(variance(Len(x), SumOver(x, 1..Len(x)), SumOver(sq, 1..Len(x))))

\* a plausible slip: r[n:] - r[1:-n+1], the subtracted sum is one sample late
moving_mean_late(x, n) ==
    LET r  == cumsum(x)
        r2 == [i \in 1..Len(x) |-> IF i > n THEN r[i] - r[i - n + 1] ELSE r[i]]
    IN  [k \in 1..(Len(x) - n + 1) |-> (r2[k + n - 1] * Scale) \div n]

\* moving_mean(x, n), the cumulative-sum branch
moving_mean(x, n) ==
    LET r  == cumsum(x)
        r2 == [i \in 1..Len(x) |-> IF i > n THEN r[i] - r[i - n] ELSE r[i]]
    IN  [k \in 1..(Len(x) - n + 1) |-> (r2[k + n - 1] * Scale) \div n]

RECURSIVE median_scan(_, _, _, _)
\* the loop of moving_median from `start` (0-based) on, with the sorted
\* window `srt`: the sums sort[m] + sort[m2] it stores in r, r[-1] included
median_scan(x, n, start, srt) ==
    LET m   == n \div 2
        m2  == m + (n % 2) - 1
        cur == srt[m + 1] + srt[m2 + 1]
    IN  IF start >= Len(x) - n
        THEN <<cur>>
        ELSE <<cur>> \o
             median_scan(x, n, start + 1,
                         insort(del_at(srt, bisect_left(srt, x[start + 1])),
                                x[start + n + 1]))

\* moving_median(x, n), the sort based branch
moving_median(x, n) ==
    LET r == median_scan(x, n, 0, sorted(SubSeq(x, 1, n)))
    IN  [k \in 1..Len(r) |-> (r[k] * Scale) \div 2]

\* moving_std(x, n), the cumulative-sum branch
moving_std(x, n) ==
    LET tab  == cumsum(x)
        tab2 == cumsum([i \in 1..Len(x) |-> x[i] * x[i]])
        sums == [k \in 1..(Len(x) - n + 1) |->
                    IF k = 1 THEN tab[n] ELSE tab[k + n - 1] - tab[k - 1]]
        sqrs == [k \in 1..(Len(x) - n + 1) |->
                    IF k = 1 THEN tab2[n] ELSE tab2[k + n - 1] - tab2[k - 1]]
    IN  [k \in 1..(Len(x) - n + 1) |-> np_sqrt(variance(n, sums[k], sqrs[k]))]

\* the index of x that np.pad(x, [p, p], mode="reflect") reads for the
\* (1-based, possibly out of range) position i
reflect_index(i, len) ==
    IF len = 1 THEN 1
    ELSE LET period == 2 * (len - 1)
             j      == (i - 1) % period
         IN  IF j < len THEN j + 1 ELSE period - j + 1

\* a plausible slip: mode="edge", the end samples are repeated
np_pad_edge(x, p) ==
    [k \in 1..(Len(x) + 2 * p) |->
        x[IF k - p < 1 THEN 1 ELSE IF k - p > Len(x) THEN Len(x) ELSE k - p]]

\* np.pad(x, [p, p], mode="reflect")
np_pad_reflect(x, p) ==
    [k \in 1..(Len(x) + 2 * p) |-> x[reflect_index(k - p, Len(x))]]

\* x[:size]
take(x, size) == SubSeq(x, 1, IF size < Len(x) THEN size ELSE Len(x))

\* a plausible slip: Yc and Yd are returned in the wrong order
poisson_limits_swapped(ub, epsilon) ==
    LET u == IF ub < 5 * Scale THEN ub + epsilon ELSE ub
    IN  [sc |-> (271 * Scale) \div 100 + (465 * np_sqrt(u)) \div 100,
         sd |-> (233 * np_sqrt(u)) \div 100]

\* a plausible slip: a mean of exactly 5.0 is corrected too
poisson_limits_corrects_at_five(ub, epsilon) ==
    LET u == IF ub <= 5 * Scale THEN ub + epsilon ELSE ub
    IN  [sc |-> (233 * np_sqrt(u)) \div 100,
         sd |-> (271 * Scale) \div 100 + (465 * np_sqrt(u)) \div 100]

\* poisson_limits(ub, epsilon) of nanopart/util.py: Yc and Yd for the mean ub
poisson_limits(ub, epsilon) ==
    LET u == IF ub < 5 * Scale THEN ub + epsilon ELSE ub
    IN  [sc |-> (233 * np_sqrt(u)) \div 100,
         sd |-> (271 * Scale) \div 100 + (465 * np_sqrt(u)) \div 100]

\* the default error rates (alpha, beta) = (0.05, 0.05), in percent
error_rates == <<5, 5>>

\* spcal.poisson.formula_c(ub, alpha, beta), which calc.py imports as
\* poisson_limits: for the default error rates sc = 2.33 sqrt(ub),
\* sd = 2.71 + 4.65 sqrt(ub), with the low-count correction below 5.0
formula_c(ub, alpha, beta) == poisson_limits(ub, (5 * Scale) \div 10)

\* "Median" in method, "Gaussian" in method
HasMedian(m) == m \in {"Gaussian Median", "Gaussian-Median"}
HasGaussian(m) == m \in {"Gaussian", "Gaussian Median", "Gaussian-Median"}

\* a plausible slip: the median method is spelled with a hyphen
AcceptedMethodsHyphenated ==
    {"Automatic", "Highest", "Gaussian", "Gaussian-Median", "Poisson"}

AcceptedMethods == {"Automatic", "Highest", "Gaussian", "Gaussian Median", "Poisson"}

\* a plausible slip: the two Poisson limits are returned in the wrong order
poisson_triple_swapped(ub, sc, sd) == [mean |-> ub, lc |-> ub + sd, ld |-> ub + sc]

\* (ub, ub + sc, ub + sd) of the Poisson branches
poisson_triple(ub, sc, sd) == [mean |-> ub, lc |-> ub + sc, ld |-> ub + sd]

\* (ub, ld, ld) with ld = ub + sigma * std of the Gaussian branches
gaussian_triple(ub, sig, std) ==
    LET l == ub + sig * std IN [mean |-> ub, lc |-> l, ld |-> l]

\* elementwise over per-sample arrays
poisson_triple_arrays(ub, alpha, beta) ==
    LET t == [i \in 1..Len(ub) |->
                 poisson_triple(ub[i], formula_c(ub[i], alpha, beta).sc,
                                formula_c(ub[i], alpha, beta).sd)]
    IN  [mean |-> ub,
         lc   |-> [i \in 1..Len(ub) |-> t[i].lc],
         ld   |-> [i \in 1..Len(ub) |-> t[i].ld]]

gaussian_triple_arrays(ub, sig, std) ==
    LET t == [i \in 1..Len(ub) |-> gaussian_triple(ub[i], sig, std[i])]
    IN  [mean |-> ub,
         lc   |-> [i \in 1..Len(ub) |-> t[i].lc],
         ld   |-> [i \in 1..Len(ub) |-> t[i].ld]]

\* plausible slips in the resolution of "Automatic" and "Highest":
\* "Gaussian" only strictly above 50.0, as the docstring words it
resolve_method_above_fifty(resp, meth, sig, ub) ==
    IF meth = "Automatic"
    THEN (IF ub > 50 * Scale THEN "Gaussian" ELSE "Poisson")
    ELSE IF meth = "Highest"
    THEN LET lpoisson  == ub + formula_c(ub, error_rates[1], error_rates[2]).sd
             lgaussian == ub + sig * np_std(resp)
         IN  IF lgaussian > lpoisson THEN "Gaussian" ELSE "Poisson"
    ELSE meth

\* the two branches of "Automatic" exchanged
resolve_method_exchanged(resp, meth, sig, ub) ==
    IF meth = "Automatic"
    THEN (IF ub < 50 * Scale THEN "Gaussian" ELSE "Poisson")
    ELSE IF meth = "Highest"
    THEN LET lpoisson  == ub + formula_c(ub, error_rates[1], error_rates[2]).sd
             lgaussian == ub + sig * np_std(resp)
         IN  IF lgaussian > lpoisson THEN "Gaussian" ELSE "Poisson"
    ELSE meth

\* "Highest" picks the method with the lower detection limit
resolve_method_lowest(resp, meth, sig, ub) ==
    IF meth = "Automatic"
    THEN (IF ub < 50 * Scale THEN "Poisson" ELSE "Gaussian")
    ELSE IF meth = "Highest"
    THEN LET lpoisson  == ub + formula_c(ub, error_rates[1], error_rates[2]).sd
             lgaussian == ub + sig * np_std(resp)
         IN  IF lgaussian < lpoisson THEN "Gaussian" ELSE "Poisson"
    ELSE meth

\* the method that "Automatic" and "Highest" resolve to, from the global ub
resolve_method(resp, meth, sig, ub) ==
    IF meth = "Automatic"
    THEN (IF ub < 50 * Scale THEN "Poisson" ELSE "Gaussian")
    ELSE IF meth = "Highest"
    THEN LET lpoisson  == ub + formula_c(ub, error_rates[1], error_rates[2]).sd
             lgaussian == ub + sig * np_std(resp)
         IN  IF lgaussian > lpoisson THEN "Gaussian" ELSE "Poisson"
    ELSE meth

\* a plausible slip: only a window below 1 is taken as no window
scalar_mode_below_one(win) == win.none \/ win.n < 1

\* window is None or window < 2
scalar_mode(win) == win.none \/ win.n < 2

\* calculate_limits(responses, method, sigma, error_rates, window)
calculate_limits(resp, meth, sig, win) ==
    IF Len(resp) = 0
    THEN [raised |-> "ValueError", message |-> "Responses invalid."]
    ELSE IF meth \notin AcceptedMethods
    THEN [raised |-> "ValueError", message |-> "method must be one of"]
    ELSE
    LET ub0  == IF HasMedian(meth) THEN np_median(resp) ELSE np_mean(resp)
        m    == resolve_method(resp, meth, sig, ub0)
    IN  IF scalar_mode(win)
        THEN IF HasGaussian(m)
             THEN [raised |-> "none", method |-> m, params |-> [sigma |-> sig],
                   windowed |-> FALSE,
                   limits |-> gaussian_triple(ub0, sig, np_std(resp))]
             ELSE [raised |-> "none", method |-> m,
                   params |-> [alpha |-> error_rates[1], beta |-> error_rates[2]],
                   windowed |-> FALSE,
                   limits |-> poisson_triple(
                                 ub0,
                                 formula_c(ub0, error_rates[1], error_rates[2]).sc,
                                 formula_c(ub0, error_rates[1], error_rates[2]).sd)]
        ELSE LET pad == np_pad_reflect(resp, win.n \div 2)
                 ub  == IF HasMedian(m)
                        THEN take(moving_median(pad, win.n), Len(resp))
                        ELSE take(moving_mean(pad, win.n), Len(resp))
             IN  IF HasGaussian(m)
                 THEN [raised |-> "none", method |-> m, params |-> [sigma |-> sig],
                       windowed |-> TRUE,
                       limits |-> gaussian_triple_arrays(
                                     ub, sig, take(moving_std(pad, win.n), Len(resp)))]
                 ELSE [raised |-> "none", method |-> m,
                       params |-> [alpha |-> error_rates[1], beta |-> error_rates[2]],
                       windowed |-> TRUE,
                       limits |-> poisson_triple_arrays(ub, error_rates[1], error_rates[2])]

\* the sample values, method strings and windows given to calculate_limits
SignalValues == {0, 4, 5, 50, 60}
LimitSignals == UNION {[1..n -> SignalValues] : n \in 0..MaxSig}
Methods == AcceptedMethods \cup {"Gaussian-Median", "Manual Input"}
Windows == {[none |-> TRUE, n |-> 0]} \cup {[none |-> FALSE, n |-> k] : k \in 0..MaxWindow}

InitLimits ==
    /\ RollingIdle
    /\ AccumulateIdle
    /\ BatchIdle
    /\ PoissonIdle
    /\ ParticleIdle
    /\ responses \in LimitSignals
    /\ method \in Methods
    /\ sigma \in {1, 3}
    /\ window \in Windows
    /\ lim_pc = "call"
    /\ lim_ret = [raised |-> "none"]

\* the call calculate_limits(responses, method, sigma, window=window)
CalculateLimits ==
    /\ lim_pc = "call"
    /\ lim_ret' = calculate_limits(responses, method, sigma, window)
    /\ lim_pc' = "returned"
    /\ UNCHANGED <<responses, method, sigma, window>>
    /\ UNCHANGED <<acc_vars, batch_vars, poi_vars, eq_vars, roll_vars>>

NextLimits == CalculateLimits

SpecLimits == InitLimits /\ [][NextLimits]_vars

\* ------------------------------------------------- the rolling functions
\* the arrays and window sizes given to them: 1 <= n <= len(x)
RollValues == {0, 1, 2, 5}
RollArrays == UNION {[1..k -> RollValues] : k \in 1..MaxRoll}

InitRolling ==
    /\ AccumulateIdle
    /\ BatchIdle
    /\ LimitsIdle
    /\ PoissonIdle
    /\ ParticleIdle
    /\ roll_x \in RollArrays
    /\ roll_n \in 1..Len(roll_x)
    /\ roll_pc = "call"
    /\ med_sort = <<>>
    /\ med_start = 0
    /\ med_r = <<>>
    /\ roll_ret = <<>>

\* the call moving_mean(x, n)
MovingMean ==
    /\ roll_pc = "call"
    /\ roll_ret' = moving_mean(roll_x, roll_n)
    /\ roll_pc' = "moving_mean"
    /\ UNCHANGED <<roll_x, roll_n, med_sort, med_start, med_r>>
    /\ UNCHANGED <<acc_vars, batch_vars, lim_vars, poi_vars, eq_vars>>

\* the call moving_std(x, n)
MovingStd ==
    /\ roll_pc = "call"
    /\ roll_ret' = moving_std(roll_x, roll_n)
    /\ roll_pc' = "moving_std"
    /\ UNCHANGED <<roll_x, roll_n, med_sort, med_start, med_r>>
    /\ UNCHANGED <<acc_vars, batch_vars, lim_vars, poi_vars, eq_vars>>

\* sort[m] + sort[m2] with m = n // 2 and m2 = m + n % 2 - 1
middle_sum(srt, n) == srt[(n \div 2) + 1] + srt[(n \div 2) + (n % 2) - 1 + 1]

\* moving_median(x, n) up to the loop: sort = sorted(x[:n])
MedianEnter ==
    /\ roll_pc = "call"
    /\ med_sort' = sorted(SubSeq(roll_x, 1, roll_n))
    /\ med_start' = 0
    /\ med_r' = <<>>
    /\ roll_pc' = "median_loop"
    /\ UNCHANGED <<roll_x, roll_n, roll_ret>>
    /\ UNCHANGED <<acc_vars, batch_vars, lim_vars, poi_vars, eq_vars>>

\* one pass of `for start in range(x.size - n)`
MedianStep ==
    /\ roll_pc = "median_loop"
    /\ med_start < Len(roll_x) - roll_n
    /\ med_r' = Append(med_r, middle_sum(med_sort, roll_n))
    /\ med_sort' = insort(del_at(med_sort, bisect_left(med_sort, roll_x[med_start + 1])),
                          roll_x[med_start + roll_n + 1])
    /\ med_start' = med_start + 1
    /\ UNCHANGED <<roll_x, roll_n, roll_pc, roll_ret>>
    /\ UNCHANGED <<acc_vars, batch_vars, lim_vars, poi_vars, eq_vars>>

\* after the loop: r[-1] = sort[m] + sort[m2]; return r / 2.0
MedianReturn ==
    /\ roll_pc = "median_loop"
    /\ med_start >= Len(roll_x) - roll_n
    /\ med_r' = Append(med_r, middle_sum(med_sort, roll_n))
    /\ roll_ret' = [k \in 1..Len(med_r') |-> (med_r'[k] * Scale) \div 2]
    /\ roll_pc' = "moving_median"
    /\ UNCHANGED <<roll_x, roll_n, med_sort, med_start>>
    /\ UNCHANGED <<acc_vars, batch_vars, lim_vars, poi_vars, eq_vars>>

NextRolling ==
    \/ MovingMean
    \/ MovingStd
    \/ MedianEnter
    \/ MedianStep
    \/ MedianReturn

SpecRolling == InitRolling /\ [][NextRolling]_vars

\* ------------------------------------------------------------ poisson_limits
\* epsilon: float = 0.5
DefaultEpsilon == (5 * Scale) \div 10

\* the means and corrections given to poisson_limits
Means == {(k * Scale) \div 4 : k \in 0..MaxQuarters}
Epsilons == {0, DefaultEpsilon, Scale}

InitPoisson ==
    /\ RollingIdle
    /\ AccumulateIdle
    /\ BatchIdle
    /\ LimitsIdle
    /\ ParticleIdle
    /\ poi_ub \in Means
    /\ poi_epsilon \in Epsilons
    /\ poi_pc = "call"
    /\ poi_ret = [sc |-> 0, sd |-> 0]

\* the call poisson_limits(ub, epsilon)
PoissonLimits ==
    /\ poi_pc = "call"
    /\ poi_ret' = poisson_limits(poi_ub, poi_epsilon)
    /\ poi_pc' = "returned"
    /\ UNCHANGED <<poi_ub, poi_epsilon>>
    /\ UNCHANGED <<acc_vars, batch_vars, lim_vars, eq_vars, roll_vars>>

NextPoisson == PoissonLimits

SpecPoisson == InitPoisson /\ [][NextPoisson]_vars

\* ------------------------------------------------------- particle functions
\* The arguments are exact rationals <<numerator, denominator>> with a
\* positive denominator, kept in lowest terms; signals are integer counts.
RECURSIVE gcd(_, _)
gcd(a, b) == IF b = 0 THEN a ELSE gcd(b, a % b)

QNorm(q) ==
    LET g == gcd(IF q[1] < 0 THEN -q[1] ELSE q[1], q[2])
    IN  <<q[1] \div g, q[2] \div g>>

QInt(n) == <<n, 1>>
QMul(a, b) == QNorm(<<a[1] * b[1], a[2] * b[2]>>)
QDiv(a, b) == QNorm(<<a[1] * b[2], a[2] * b[1]>>)

\* np.mean(signal) of an array of counts
q_mean(signal) == QNorm(<<SumOver(signal, 1..Len(signal)), Len(signal)>>)

\* a plausible slip: the mass fraction multiplies (the other convention)
particle_mass_multiplying(signal, dwell, efficiency, flowrate, response_factor, mass_fraction) ==
    LET f == QDiv(QMul(QMul(QMul(dwell, flowrate), efficiency), mass_fraction),
                  response_factor)
    IN  [i \in 1..Len(signal) |-> QMul(QInt(signal[i]), f)]

\* particle_mass of spcal/particle.py:
\* signal * (dwell * flowrate * efficiency / (response_factor * mass_fraction))
particle_mass(signal, dwell, efficiency, flowrate, response_factor, mass_fraction) ==
    LET f == QDiv(QMul(QMul(dwell, flowrate), efficiency),
                  QMul(response_factor, mass_fraction))
    IN  [i \in 1..Len(signal) |-> QMul(QInt(signal[i]), f)]

\* particle_mass of nanopart/util.py:
\* signal * (dwell * flowrate * efficiency * mass_fraction / response_factor)
util_particle_mass(signal, dwell, efficiency, flowrate, response_factor, mass_fraction) ==
    LET f == QDiv(QMul(QMul(QMul(dwell, flowrate), efficiency), mass_fraction),
                  response_factor)
    IN  [i \in 1..Len(signal) |-> QMul(QInt(signal[i]), f)]

\* plausible slips: the mass fraction divides, as the docstring's formula has it
nebulisation_efficiency_from_mass_dividing(signal, dwell, mass, flowrate, response_factor, mass_fraction) ==
    QDiv(QMul(mass, response_factor),
         QMul(QMul(q_mean(signal), mass_fraction), QMul(dwell, flowrate)))

\* the first signal is taken instead of the mean
nebulisation_efficiency_from_mass_first(signal, dwell, mass, flowrate, response_factor, mass_fraction) ==
    QDiv(QMul(QMul(mass, response_factor), mass_fraction),
         QMul(QInt(signal[1]), QMul(dwell, flowrate)))

\* nebulisation_efficiency_from_mass of spcal/particle.py:
\* signal = np.mean(signal);
\* (mass * response_factor * mass_fraction) / (signal * (dwell * flowrate))
nebulisation_efficiency_from_mass(signal, dwell, mass, flowrate, response_factor, mass_fraction) ==
    QDiv(QMul(QMul(mass, response_factor), mass_fraction),
         QMul(q_mean(signal), QMul(dwell, flowrate)))

\* a plausible slip: the mass fraction multiplies a single signal
particle_mass_float_multiplying(signal, dwell, efficiency, flowrate, response_factor, mass_fraction) ==
    QMul(signal, QDiv(QMul(QMul(QMul(dwell, flowrate), efficiency), mass_fraction),
                      response_factor))

\* particle_mass of spcal/particle.py given a single float as signal
particle_mass_float(signal, dwell, efficiency, flowrate, response_factor, mass_fraction) ==
    QMul(signal, QDiv(QMul(QMul(dwell, flowrate), efficiency),
                      QMul(response_factor, mass_fraction)))

QAdd(a, b) == QNorm(<<a[1] * b[2] + b[1] * a[2], a[2] * b[2]>>)

RECURSIVE q_sum(_)
\* np.sum(masses) of an array of rationals
q_sum(masses) ==
    IF masses = <<>> THEN QInt(0)
    ELSE QAdd(masses[1], q_sum(SubSeq(masses, 2, Len(masses))))

\* np.around(q): to the nearest integer, a half to the even one
np_around(q) ==
    LET fl == q[1] \div q[2]
        r2 == 2 * (q[1] % q[2])
    IN  QInt(IF r2 < q[2] THEN fl
             ELSE IF r2 > q[2] THEN fl + 1
             ELSE IF fl % 2 = 0 THEN fl ELSE fl + 1)

\* Masses and sizes that involve pi are kept exact: the record
\* [q, pi] is the real q * pi^pi, and [q, pi, cbrt] is q * pi^pi, or its
\* cube root where cbrt is TRUE.
PReal(q) == [q |-> q, pi |-> 0]

RECURSIVE icbrt_between(_, _, _)
\* the largest r in lo..hi with r * r * r <= n
icbrt_between(n, lo, hi) ==
    IF lo >= hi THEN lo
    ELSE LET mid == (lo + hi + 1) \div 2
         IN  IF mid * mid * mid <= n
             THEN icbrt_between(n, mid, hi)
             ELSE icbrt_between(n, lo, mid - 1)

icbrt(n) == icbrt_between(n, 0, IF n < 1290 THEN n ELSE 1290)
IsCube(n) == icbrt(n) * icbrt(n) * icbrt(n) = n

\* np.cbrt(r): the rational times a power of pi where the root is one,
\* otherwise the root is kept as such
np_cbrt(r) ==
    IF r.pi % 3 = 0 /\ IsCube(r.q[1]) /\ IsCube(r.q[2])
    THEN [q |-> <<icbrt(r.q[1]), icbrt(r.q[2])>>, pi |-> r.pi \div 3, cbrt |-> FALSE]
    ELSE [q |-> r.q, pi |-> r.pi, cbrt |-> TRUE]

\* particle_size of spcal/particle.py: np.cbrt(6.0 / (np.pi * density) * masses)
particle_size(masses, density) ==
    np_cbrt([q |-> QMul(QDiv(QInt(6), density), masses.q), pi |-> masses.pi - 1])

\* particle_size of nanopart/util.py: np.cbrt(6.0 / (np.pi * density) * masses)
util_particle_size(masses, density) ==
    np_cbrt([q |-> QMul(QDiv(QInt(6), density), masses.q), pi |-> masses.pi - 1])

\* reference_particle_mass of spcal/particle.py:
\* 4.0 / 3.0 * np.pi * (diameter / 2.0) ** 3 * density
reference_particle_mass(density, diameter) ==
    LET r == QDiv(diameter, QInt(2))
    IN  [q |-> QMul(QMul(<<4, 3>>, QMul(QMul(r, r), r)), density), pi |-> 1]

\* reference_particle_mass of nanopart/util.py:
\* 4.0 / 3.0 * np.pi * diameter ** 3 * density
util_reference_particle_mass(density, diameter) ==
    [q |-> QMul(QMul(<<4, 3>>, QMul(QMul(diameter, diameter), diameter)), density),
     pi |-> 1]

\* particle_number_concentration: count / (efficiency * flowrate * time)
particle_number_concentration(count, efficiency, flowrate, time) ==
    QDiv(QInt(count), QMul(QMul(efficiency, flowrate), time))

\* particle_total_concentration: np.sum(masses) / (efficiency * flowrate * time)
particle_total_concentration(masses, efficiency, flowrate, time) ==
    QDiv(q_sum(masses), QMul(QMul(efficiency, flowrate), time))

\* The limit of detection given to the results functions is the record
\* [ndarray, v]: an array v of limits, or the float v[1].
\* np.array([np.amin(lod), np.amax(lod), np.mean(lod), np.median(lod)])
lod_summary(lod) ==
    IF lod.ndarray
    THEN LET srt == sorted(lod.v)
             n   == Len(srt)
         IN  <<QInt(srt[1]), QInt(srt[n]), q_mean(lod.v),
               IF n % 2 = 1 THEN QInt(srt[(n + 1) \div 2])
               ELSE QNorm(<<srt[n \div 2] + srt[n \div 2 + 1], 2>>)>>
    ELSE <<QInt(lod.v[1])>>

\* a plausible slip: the mass fraction multiplies the mass response
results_from_mass_response_multiplying(detections, background, lod, density, massfraction, massresponse) ==
    LET lods   == lod_summary(lod)
        f      == QMul(massresponse, massfraction)
        masses == [i \in 1..Len(detections) |-> QMul(QInt(detections[i]), f)]
        lodm   == [k \in 1..Len(lods) |-> QMul(lods[k], f)]
    IN  [masses |-> masses,
         sizes |-> [i \in 1..Len(masses) |-> particle_size(PReal(masses[i]), density)],
         background_size |-> particle_size(PReal(QMul(background, f)), density),
         lod |-> lods,
         lod_mass |-> lodm,
         lod_size |-> [k \in 1..Len(lodm) |-> particle_size(PReal(lodm[k]), density)]]

\* a plausible slip: the sum of the masses is returned as a concentration
results_from_mass_response_concentration(detections, background, lod, density, massfraction, massresponse) ==
    LET lods   == lod_summary(lod)
        f      == QDiv(massresponse, massfraction)
        masses == [i \in 1..Len(detections) |-> QMul(QInt(detections[i]), f)]
        lodm   == [k \in 1..Len(lods) |-> QMul(lods[k], f)]
    IN  [masses |-> masses,
         sizes |-> [i \in 1..Len(masses) |-> particle_size(PReal(masses[i]), density)],
         concentration |-> q_sum(masses),
         background_size |-> particle_size(PReal(QMul(background, f)), density),
         lod |-> lods,
         lod_mass |-> lodm,
         lod_size |-> [k \in 1..Len(lodm) |-> particle_size(PReal(lodm[k]), density)]]

\* results_from_mass_response of spcal/calc.py; the dict is a record
results_from_mass_response(detections, background, lod, density, massfraction, massresponse) ==
    LET lods   == lod_summary(lod)
        f      == QDiv(massresponse, massfraction)
        masses == [i \in 1..Len(detections) |-> QMul(QInt(detections[i]), f)]
        lodm   == [k \in 1..Len(lods) |-> QMul(lods[k], f)]
    IN  [masses |-> masses,
         sizes |-> [i \in 1..Len(masses) |-> particle_size(PReal(masses[i]), density)],
         background_size |-> particle_size(PReal(QMul(background, f)), density),
         lod |-> lods,
         lod_mass |-> lodm,
         lod_size |-> [k \in 1..Len(lodm) |-> particle_size(PReal(lodm[k]), density)]]

\* results_from_nebulisation_efficiency of spcal/calc.py; the dict is a record
results_from_nebulisation_efficiency(detections, background, lod, density, dwelltime, efficiency, massfraction, uptake, response, time) ==
    LET lods   == lod_summary(lod)
        masses == particle_mass(detections, dwelltime, efficiency, uptake, response, massfraction)
        lodm   == [k \in 1..Len(lods) |->
                      particle_mass_float(lods[k], dwelltime, efficiency, uptake,
                                          response, massfraction)]
    IN  [masses |-> masses,
         sizes |-> [i \in 1..Len(masses) |-> particle_size(PReal(masses[i]), density)],
         concentration |-> particle_total_concentration(masses, efficiency, uptake, time),
         number_concentration |->
             np_around(particle_number_concentration(Len(detections), efficiency,
                                                     uptake, time)),
         background_concentration |-> QDiv(background, response),
         background_size |->
             particle_size(PReal(particle_mass_float(background, dwelltime, efficiency,
                                                     uptake, response, massfraction)),
                           density),
         lod |-> lods,
         lod_mass |-> lodm,
         lod_size |-> [k \in 1..Len(lodm) |-> particle_size(PReal(lodm[k]), density)]]

\* the signals and the calibration parameters given to the particle functions
Half == <<1, 2>>
ParticleSignals ==
    UNION {{[i \in 1..n |-> k * c[i]] : c \in [1..n -> {1, 2, 3}], k \in {1, 10}} :
              n \in 1..MaxEvents}
ParticleArgs ==
    [signal : ParticleSignals,
     dwell : {Half, QInt(10)},
     efficiency : {Half, QInt(1)},
     flowrate : {QInt(2), QInt(4)},
     response_factor : {QInt(2), QInt(20)},
     mass_fraction : {Half, QInt(1), QInt(2)},
     mass : {QInt(1), QInt(10)}]

\* the reference particle given to reference_particle_mass
SizeArgs ==
    [density : {Half, QInt(1), QInt(2), QInt(750)},
     diameter : {<<1, 5>>, Half, QInt(1), QInt(2), QInt(3)}]

\* the detection sums, background, limit(s) of detection and calibration
\* inputs given to the results functions
ResultLods ==
    {[ndarray |-> FALSE, v |-> <<3>>],
     [ndarray |-> TRUE, v |-> <<2, 4>>],
     [ndarray |-> TRUE, v |-> <<3, 1, 8>>]}
ResultArgs ==
    [detections : UNION {[1..n -> {2, 5}] : n \in 1..MaxEvents},
     background : {QInt(1)},
     lod : ResultLods,
     density : {QInt(1), QInt(2)},
     dwelltime : {Half},
     efficiency : {Half},
     massfraction : {Half, QInt(2)},
     uptake : {QInt(2)},
     response : {QInt(2)},
     time : {QInt(10)},
     massresponse : {<<1, 4>>, QInt(3)}]

InitParticle ==
    /\ RollingIdle
    /\ AccumulateIdle
    /\ BatchIdle
    /\ LimitsIdle
    /\ PoissonIdle
    /\ \/ eq_args \in ParticleArgs /\ eq_pc = "call"
       \/ eq_args \in SizeArgs /\ eq_pc = "call_size"
       \/ eq_args \in ResultArgs /\ eq_pc = "call_results"
    /\ eq_ret = <<>>

\* the call spcal.particle_mass(signal, dwell, efficiency, flowrate, ...)
ParticleMass ==
    /\ eq_pc = "call"
    /\ eq_ret' = particle_mass(eq_args.signal, eq_args.dwell, eq_args.efficiency,
                               eq_args.flowrate, eq_args.response_factor,
                               eq_args.mass_fraction)
    /\ eq_pc' = "particle_mass"
    /\ UNCHANGED eq_args
    /\ UNCHANGED <<acc_vars, batch_vars, lim_vars, poi_vars, roll_vars>>

\* the call nanopart.particle_mass(signal, dwell, efficiency, flowrate, ...)
UtilParticleMass ==
    /\ eq_pc = "call"
    /\ eq_ret' = util_particle_mass(eq_args.signal, eq_args.dwell, eq_args.efficiency,
                                    eq_args.flowrate, eq_args.response_factor,
                                    eq_args.mass_fraction)
    /\ eq_pc' = "util_particle_mass"
    /\ UNCHANGED eq_args
    /\ UNCHANGED <<acc_vars, batch_vars, lim_vars, poi_vars, roll_vars>>

\* the call spcal.nebulisation_efficiency_from_mass(signal, dwell, mass, ...)
NebulisationEfficiencyFromMass ==
    /\ eq_pc = "call"
    /\ eq_ret' = nebulisation_efficiency_from_mass(
                     eq_args.signal, eq_args.dwell, eq_args.mass, eq_args.flowrate,
                     eq_args.response_factor, eq_args.mass_fraction)
    /\ eq_pc' = "nebulisation_efficiency_from_mass"
    /\ UNCHANGED eq_args
    /\ UNCHANGED <<acc_vars, batch_vars, lim_vars, poi_vars, roll_vars>>

\* spcal.particle_mass on the mean reference signal, with the efficiency that
\* nebulisation_efficiency_from_mass returned and the same other parameters
ParticleMassOfReference ==
    /\ eq_pc = "nebulisation_efficiency_from_mass"
    /\ eq_ret' = particle_mass_float(q_mean(eq_args.signal), eq_args.dwell, eq_ret,
                                     eq_args.flowrate, eq_args.response_factor,
                                     eq_args.mass_fraction)
    /\ eq_pc' = "reference_mass"
    /\ UNCHANGED eq_args
    /\ UNCHANGED <<acc_vars, batch_vars, lim_vars, poi_vars, roll_vars>>

\* the call spcal.reference_particle_mass(density, diameter)
ReferenceParticleMass ==
    /\ eq_pc = "call_size"
    /\ eq_ret' = reference_particle_mass(eq_args.density, eq_args.diameter)
    /\ eq_pc' = "reference_particle_mass"
    /\ UNCHANGED eq_args
    /\ UNCHANGED <<acc_vars, batch_vars, lim_vars, poi_vars, roll_vars>>

\* the call nanopart.reference_particle_mass(density, diameter)
UtilReferenceParticleMass ==
    /\ eq_pc = "call_size"
    /\ eq_ret' = util_reference_particle_mass(eq_args.density, eq_args.diameter)
    /\ eq_pc' = "util_reference_particle_mass"
    /\ UNCHANGED eq_args
    /\ UNCHANGED <<acc_vars, batch_vars, lim_vars, poi_vars, roll_vars>>

\* spcal.particle_size of the reference mass, at the same density
ParticleSize ==
    /\ eq_pc = "reference_particle_mass"
    /\ eq_ret' = particle_size(eq_ret, eq_args.density)
    /\ eq_pc' = "particle_size"
    /\ UNCHANGED eq_args
    /\ UNCHANGED <<acc_vars, batch_vars, lim_vars, poi_vars, roll_vars>>

\* nanopart.particle_size of the reference mass, at the same density
UtilParticleSize ==
    /\ eq_pc = "util_reference_particle_mass"
    /\ eq_ret' = util_particle_size(eq_ret, eq_args.density)
    /\ eq_pc' = "util_particle_size"
    /\ UNCHANGED eq_args
    /\ UNCHANGED <<acc_vars, batch_vars, lim_vars, poi_vars, roll_vars>>

\* the call results_from_mass_response(detections, background, lod, ...)
ResultsFromMassResponse ==
    /\ eq_pc = "call_results"
    /\ eq_ret' = results_from_mass_response(
                     eq_args.detections, eq_args.background, eq_args.lod,
                     eq_args.density, eq_args.massfraction, eq_args.massresponse)
    /\ eq_pc' = "results_from_mass_response"
    /\ UNCHANGED eq_args
    /\ UNCHANGED <<acc_vars, batch_vars, lim_vars, poi_vars, roll_vars>>

\* the call results_from_nebulisation_efficiency(detections, background, lod, ...)
ResultsFromNebulisationEfficiency ==
    /\ eq_pc = "call_results"
    /\ eq_ret' = results_from_nebulisation_efficiency(
                     eq_args.detections, eq_args.background, eq_args.lod,
                     eq_args.density, eq_args.dwelltime, eq_args.efficiency,
                     eq_args.massfraction, eq_args.uptake, eq_args.response,
                     eq_args.time)
    /\ eq_pc' = "results_from_nebulisation_efficiency"
    /\ UNCHANGED eq_args
    /\ UNCHANGED <<acc_vars, batch_vars, lim_vars, poi_vars, roll_vars>>

NextParticle ==
    \/ ParticleMass
    \/ UtilParticleMass
    \/ NebulisationEfficiencyFromMass
    \/ ParticleMassOfReference
    \/ ReferenceParticleMass
    \/ UtilReferenceParticleMass
    \/ ParticleSize
    \/ UtilParticleSize
    \/ ResultsFromMassResponse
    \/ ResultsFromNebulisationEfficiency

SpecParticle == InitParticle /\ [][NextParticle]_vars

\* ---------------------------------------------------------------------------
\* Region rows of the three-value accumulate (sums, labels, regions) as the
\* repository's test asserts them: one row <<start, end>> per event, 0-based,
\* start the first sample of the event, end the index after its last sample,
\* or the last index of the signal when the event reaches the end
\* ([[0,1],[2,4],[9,9]] for labels [1,0,2,2,0,0,0,0,0,3]).
EventLabels(labels) == {labels[i] : i \in 1..Len(labels)} \ {0}

RECURSIVE SortedSeq(_)
\* the elements of a finite set of integers in increasing order
SortedSeq(S) ==
    IF S = {} THEN <<>> ELSE <<MinOf(S)>> \o SortedSeq(S \ {MinOf(S)})

EventSamples(labels, L) == {i \in 1..Len(labels) : labels[i] = L}

regions(labels) ==
    LET ev == SortedSeq(EventLabels(labels))
    IN  [k \in 1..Len(ev) |->
            LET S == EventSamples(labels, ev[k])
            IN  <<MinOf(S) - 1,
                  IF MaxOf(S) <= Len(labels) - 1 THEN MaxOf(S) ELSE Len(labels) - 1>>]

\* np.add.reduceat(x, regions.ravel())[::2] for one row: the sum over the
\* half-open range [start, end), or x[start] alone when start >= end
reduceat(sig, row) ==
    IF row[1] < row[2]
    THEN SumOver(sig, {k + 1 : k \in row[1]..(row[2] - 1)})
    ELSE sig[row[1] + 1]

\* --------------------------------------------------- claims about accumulate
lc == limit_accumulation
ld == limit_detection

\* the maximal contiguous runs <<a, b>> of samples above c
Runs(sig, c) ==
    {r \in (1..Len(sig)) \X (1..Len(sig)) :
        /\ r[1] <= r[2]
        /\ \A k \in r[1]..r[2] : sig[k] > c
        /\ (r[1] = 1 \/ sig[r[1] - 1] <= c)
        /\ (r[2] = Len(sig) \/ sig[r[2] + 1] <= c)}

\* the runs above c that hold a sample above d
ConfirmedRuns(sig, c, d) ==
    {r \in Runs(sig, c) : \E k \in r[1]..r[2] : sig[k] > d}

\* the index sets of the events a result carries in its labels
OutputEvents(ret) ==
    {EventSamples(ret.labels, L) : L \in EventLabels(ret.labels)}

Max0(S) == IF S = {} THEN 0 ELSE MaxOf(S)

\* C1: with lc <= ld, accumulate outputs exactly one event per confirmed run
\* (a maximal run above lc holding a sample above ld) and no other event,
\* the first run, the last run and a single run included.
C1_RunOutputIffConfirmed ==
    (acc_pc = "returned" /\ lc <= ld) =>
        /\ Len(acc_ret.sums) = Cardinality(ConfirmedRuns(y, lc, ld))
        /\ OutputEvents(acc_ret) = {r[1]..r[2] : r \in ConfirmedRuns(y, lc, ld)}

\* C2: accumulate with lc > ld fails with a ValueError and returns no sums
\* and no labels.
C2_RaisesWhenLcAboveLd ==
    (acc_pc = "returned" /\ lc > ld) =>
        /\ acc_ret.raised = "ValueError"
        /\ acc_ret.sums = <<>>
        /\ acc_ret.labels = <<>>

\* C3: with lc <= ld the labels have the signal's length, are 0 outside the
\* confirmed runs and number the confirmed runs 1..k from left to right,
\* with k = len(sums) = max(labels).
C3_LabelsContiguous ==
    (acc_pc = "returned" /\ lc <= ld) =>
        LET conf == ConfirmedRuns(y, lc, ld)
            k    == Cardinality(conf)
        IN  /\ Len(acc_ret.labels) = Len(y)
            /\ Len(acc_ret.sums) = k
            /\ Max0({acc_ret.labels[i] : i \in 1..Len(acc_ret.labels)}) = k
            /\ \A i \in 1..Len(acc_ret.labels) :
                  IF \E r \in conf : i \in r[1]..r[2]
                  THEN LET r == CHOOSE q \in conf : i \in q[1]..q[2]
                       IN  acc_ret.labels[i] =
                               Cardinality({q \in conf : q[1] <= r[1]})
                  ELSE acc_ret.labels[i] = 0

\* the sum of the signal over a row taken inclusive of both ends
InclusiveSum(sig, row) ==
    SumOver(sig, {k + 1 : k \in row[1]..row[2]} \cap (1..Len(sig)))

C5_NoEventsFullLengthZeroLabels ==
    (acc_pc = "returned" /\ lc <= ld /\ \A i \in 1..Len(y) : y[i] <= ld) =>
        /\ acc_ret.raised = "none"
        /\ acc_ret.sums = <<>>
        /\ acc_ret.labels = [i \in 1..Len(y) |-> 0]

\* ------------------------------------------------ claims about the batch worker
\* run has ended: the loop was left, or an exception left run
Terminated == run_pc \in {"finished", "crashed"}

\* the worker has entered the try blocks of file number j
Started(j) == j < job \/ (j = job /\ run_pc \in Stages \cup {"crashed"})

\* the file j is no longer being processed
Over(j) == j < job \/ (j = job /\ run_pc = "crashed")

\* how many signals of the given kinds the worker emitted for file number j
Reports(j, kinds) ==
    Cardinality({k \in 1..Len(emitted) :
                    emitted[k][2] = infiles[j] /\ emitted[k][1] \in kinds})

Outcomes == {"processComplete", "processFailed"}

\* C6: an error of any kind at any stage of a job marks the job failed and
\* the worker goes on with the next file: no exception leaves
\* ProcessThread.run, and the loop ends early only on an interruption request.
C6_NoErrorLeavesRun ==
    /\ run_pc # "crashed"
    /\ raised = NoException
    /\ (run_pc = "finished" /\ ~interruption) => job = Len(infiles) + 1

\* C7: every job the worker started reports exactly one outcome
\* (processComplete or processFailed, never both, never twice), jobs not
\* started report none, and without cancellation a batch of N files ends with
\* N outcomes, the dialog's completed and failed lists partitioning the files.
C7_OutcomeExactlyOnce ==
    /\ \A j \in 1..Len(infiles) :
          /\ Reports(j, Outcomes) <= 1
          /\ (~Started(j)) => Reports(j, Outcomes) = 0
          /\ Over(j) => Reports(j, Outcomes) = 1
    /\ (Terminated /\ ~interruption) =>
          /\ Len(emitted) = Len(infiles)
          /\ (variant = "spcal" /\ pending = <<>>) =>
                /\ Len(completed_files) + Len(failed_files) = Len(infiles)
                /\ {completed_files[k] : k \in 1..Len(completed_files)}
                     \cup {failed_files[k] : k \in 1..Len(failed_files)}
                   = {infiles[j] : j \in 1..Len(infiles)}

\* C8: cancellation is seen only between jobs: a started job reaches a
\* reported outcome whether or not interruption was requested meanwhile, the
\* loop is left before the last file only when interruption was requested,
\* and the reported jobs are a prefix of the file list.
C8_CancelOnlyBetweenJobs ==
    /\ Len(emitted) <= Len(infiles)
    /\ \A k \in 1..Len(emitted) : emitted[k][2] = infiles[k]
    /\ (run_pc = "finished" /\ job <= Len(infiles)) => interruption
    /\ Terminated =>
          \A j \in 1..Len(infiles) : Started(j) => Reports(j, Outcomes) = 1

\* C9: in the spcal worker, when a calibration input is None (the dwell time
\* included, whatever the cell inputs are), the calibration stage neither
\* fails nor raises: the job reaches the export without calibrated fields and
\* is never reported failed by the calibration stage.
C9_MissingInputsOmitted ==
    (variant = "spcal" /\ (~method_kws.dwelltime \/ ~method_kws.others)) =>
        /\ ~(run_pc = "crashed" /\ raised.stage = "calibrate")
        /\ run_pc = "export" => ~results.calibrated

\* ------------------------------------------------ claims about calculate_limits
\* a limit value as an array: the per-sample array, or the scalar alone
AsArray(v, windowed) == IF windowed THEN v ELSE <<v>>

Returned == lim_pc = "returned" /\ lim_ret.raised = "none"

\* C10: every triple (mean, lc, ld) that calculate_limits returns has
\* lc <= ld at every sample, in scalar and in windowed mode; the Gaussian
\* family returns lc = ld, the Poisson family lc = ub + sc and ld = ub + sd
\* with (sc, sd) the Poisson limits of ub.
C10_LcAtMostLd ==
    Returned =>
        LET ub == AsArray(lim_ret.limits.mean, lim_ret.windowed)
            c  == AsArray(lim_ret.limits.lc, lim_ret.windowed)
            d  == AsArray(lim_ret.limits.ld, lim_ret.windowed)
        IN  /\ Len(c) = Len(ub) /\ Len(d) = Len(ub)
            /\ \A i \in 1..Len(ub) :
                  /\ c[i] <= d[i]
                  /\ HasGaussian(lim_ret.method) => c[i] = d[i]
                  /\ ~HasGaussian(lim_ret.method) =>
                        /\ c[i] - ub[i] = (233 * np_sqrt(IF ub[i] < 5 * Scale
                                                         THEN ub[i] + (5 * Scale) \div 10
                                                         ELSE ub[i])) \div 100
                        /\ d[i] - ub[i] = (271 * Scale) \div 100
                                          + (465 * np_sqrt(IF ub[i] < 5 * Scale
                                                           THEN ub[i] + (5 * Scale) \div 10
                                                           ELSE ub[i])) \div 100

\* a windowed Poisson result over a signal of several samples whose baseline
\* varies, with lc strictly below ld
C10_Witness ==
    /\ Returned
    /\ lim_ret.windowed
    /\ lim_ret.method = "Poisson"
    /\ Len(lim_ret.limits.mean) >= 2
    /\ \E i, j \in 1..Len(lim_ret.limits.mean) :
          lim_ret.limits.mean[i] # lim_ret.limits.mean[j]
    /\ \A i \in 1..Len(lim_ret.limits.lc) : lim_ret.limits.lc[i] < lim_ret.limits.ld[i]

\* ------------------------------------------------- claims about poisson_limits
\* C11: poisson_limits(mean), with the default epsilon, returns (sc, sd) with
\* sd >= sc >= 0 for every mean >= 0, below the low-count threshold 5.0
\* (where the mean is corrected) and at or above it (where it is not).
C11_SdAtLeastScAtLeastZero ==
    (poi_pc = "returned" /\ poi_epsilon = DefaultEpsilon /\ poi_ub >= 0) =>
        /\ poi_ret.sc >= 0
        /\ poi_ret.sd >= poi_ret.sc
        /\ poi_ub < 5 * Scale =>
              poi_ret.sc = (233 * np_sqrt(poi_ub + DefaultEpsilon)) \div 100
        /\ poi_ub >= 5 * Scale =>
              poi_ret.sc = (233 * np_sqrt(poi_ub)) \div 100

\* the call returned for a mean just below the threshold, where the
\* correction applies, with 0 < sc < sd
C11_Witness ==
    /\ poi_pc = "returned"
    /\ poi_epsilon = DefaultEpsilon
    /\ poi_ub < 5 * Scale /\ poi_ub + DefaultEpsilon >= 5 * Scale
    /\ 0 < poi_ret.sc /\ poi_ret.sc < poi_ret.sd

\* ------------------------------------- claims about the method of calculate_limits
\* the call was made with method "Automatic" / "Highest" and returned
ReturnedFor(meth) == Returned /\ method = meth

\* the sum of the signal given to calculate_limits
Total == SumOver(responses, 1..Len(responses))

GlobalGaussianLimit == np_mean(responses) + sigma * np_std(responses)
GlobalPoissonLimit ==
    LET u == np_mean(responses)
    IN  u + (271 *Scale) \div 100
          + (465 * np_sqrt(IF u < 5 * Scale THEN u + (5 * Scale) \div 10 ELSE u)) \div 100

\* C14: "Highest" compares the Gaussian detection limit (global mean +
\* sigma * global std) with the Poisson detection limit (global mean + sd)
\* of the unwindowed signal and takes the method whose limit is larger, also
\* when a window is given; in scalar mode the returned ld is the larger of the
\* two limits.
C14_HighestFromGlobalLimits ==
    ReturnedFor("Highest") =>
        /\ GlobalGaussianLimit > GlobalPoissonLimit => lim_ret.method = "Gaussian"
        /\ GlobalGaussianLimit < GlobalPoissonLimit => lim_ret.method = "Poisson"
        /\ lim_ret.method \in {"Gaussian", "Poisson"}
        /\ ~lim_ret.windowed =>
              /\ lim_ret.limits.ld >= GlobalGaussianLimit
              /\ lim_ret.limits.ld >= GlobalPoissonLimit
              /\ lim_ret.limits.ld \in {GlobalGaussianLimit, GlobalPoissonLimit}

\* "Highest" over a window resolved to "Gaussian" from the global limits
\* although at some sample the rolling Gaussian limit is below the Poisson one
C14_Witness ==
    /\ ReturnedFor("Highest")
    /\ lim_ret.windowed
    /\ lim_ret.method = "Gaussian"
    /\ \E i \in 1..Len(lim_ret.limits.ld) :
          lim_ret.limits.ld[i] <
              lim_ret.limits.mean[i] + formula_c(lim_ret.limits.mean[i], 5, 5).sd

\* window=None
NoWindow == [none |-> TRUE, n |-> 0]

\* C15: calculate_limits with a window below 2 (window=1 in particular)
\* returns what it returns with window=None: the same resolved method, the
\* same parameters and the same scalar (mean, lc, ld).
C15_WindowBelowTwoIsNoWindow ==
    (lim_pc = "returned" /\ ~window.none /\ window.n < 2) =>
        /\ lim_ret = calculate_limits(responses, method, sigma, NoWindow)
        /\ lim_ret.raised = "none" => ~lim_ret.windowed

\* the call with window=1 returned scalar limits for a signal of several samples
C15_Witness ==
    /\ Returned
    /\ window = [none |-> FALSE, n |-> 1]
    /\ Len(responses) >= 2
    /\ ~lim_ret.windowed
    /\ lim_ret.limits.lc < lim_ret.limits.ld

\* what a non-empty signal and a method string make calculate_limits do:
\* it raises the ValueError about the method exactly for the strings outside S
RaisesOutside(S) ==
    (lim_pc = "returned" /\ responses # <<>>) =>
        /\ method \notin S =>
              /\ lim_ret.raised = "ValueError"
              /\ lim_ret.message = "method must be one of"
        /\ method \in S => lim_ret.raised = "none"

\* C16 (as stated): calculate_limits fails with a ValueError for every method
\* outside {Automatic, Highest, Gaussian, Gaussian-Median, Poisson} and for
\* none of these five.
C16_RaisesOutsideHyphenatedSet ==
    RaisesOutside({"Automatic", "Highest", "Gaussian", "Gaussian-Median", "Poisson"})

\* C16 (amended): calculate_limits fails with a ValueError for every method
\* outside {Automatic, Highest, Gaussian, Gaussian Median, Poisson} (the
\* median method is spelled with a space) and for none of these five;
\* "Gaussian-Median" is rejected.
C16_RaisesOutsideAcceptedSet ==
    RaisesOutside({"Automatic", "Highest", "Gaussian", "Gaussian Median", "Poisson"})

\* the hyphenated name was given with a non-empty signal and was rejected
C16_Witness ==
    /\ lim_pc = "returned"
    /\ responses # <<>>
    /\ method = "Gaussian-Median"
    /\ lim_ret.raised = "ValueError"

\* ----------------------------------------------- claims about invalid input
\* the file j of the batch holds no data or cannot be read
InvalidInput(j) == file_kind[j] \in {"empty", "unreadable"}

\* C17: calculate_limits raises a ValueError for an empty signal whatever the
\* method (and window) is, and in a batch a file that is empty or unreadable
\* aborts only its own job: the job is reported failed, writes no output,
\* and the worker goes on with the next file.
C17_InvalidInputFailsOnlyItsJob ==
    /\ \A meth \in Methods, win \in Windows :
          calculate_limits(<<>>, meth, 3, win).raised = "ValueError"
    /\ \A j \in 1..Len(infiles) :
          InvalidInput(j) =>
              /\ ~(run_pc = "crashed" /\ job = j)
              /\ infiles[j] \notin written
              /\ Over(j) => Reports(j, {"processFailed"}) = 1

\* ------------------------------------------- claims about the particle functions
RECURSIVE QProduct(_)
\* the product of a sequence of rationals
QProduct(qs) ==
    IF qs = <<>> THEN QInt(1) ELSE QMul(Head(qs), QProduct(Tail(qs)))

\* (product of nums) / (product of dens)
Frac(nums, dens) == QDiv(QProduct(nums), QProduct(dens))

\* C18 (as stated): particle_mass returns, for every signal value,
\* signal * dwell * flowrate * efficiency * mass_fraction / response_factor.
C18_MassFractionMultiplies ==
    eq_pc \in {"particle_mass", "util_particle_mass"} =>
        /\ Len(eq_ret) = Len(eq_args.signal)
        /\ \A i \in 1..Len(eq_ret) :
              eq_ret[i] = Frac(<<QInt(eq_args.signal[i]), eq_args.dwell, eq_args.flowrate,
                                 eq_args.efficiency, eq_args.mass_fraction>>,
                               <<eq_args.response_factor>>)

\* C18 (amended): spcal's particle_mass returns, for every signal value,
\* signal * dwell * flowrate * efficiency / (response_factor * mass_fraction),
\* the mass fraction dividing; the particle_mass of nanopart/util.py returns
\* signal * dwell * flowrate * efficiency * mass_fraction / response_factor.
C18_MassFractionDividesInSpcal ==
    /\ eq_pc = "particle_mass" =>
          /\ Len(eq_ret) = Len(eq_args.signal)
          /\ \A i \in 1..Len(eq_ret) :
                eq_ret[i] = Frac(<<QInt(eq_args.signal[i]), eq_args.dwell,
                                   eq_args.flowrate, eq_args.efficiency>>,
                                 <<eq_args.response_factor, eq_args.mass_fraction>>)
    /\ eq_pc = "util_particle_mass" =>
          /\ Len(eq_ret) = Len(eq_args.signal)
          /\ \A i \in 1..Len(eq_ret) :
                eq_ret[i] = Frac(<<QInt(eq_args.signal[i]), eq_args.dwell,
                                   eq_args.flowrate, eq_args.efficiency,
                                   eq_args.mass_fraction>>,
                                 <<eq_args.response_factor>>)

\* the call of the repository's test: signal [1, 2, 3], efficiency 0.5,
\* dwell 0.5, flowrate 4, response_factor 2, mass_fraction 0.5 gives [1, 2, 3]
C18_Witness ==
    /\ eq_pc = "particle_mass"
    /\ eq_args.signal = <<1, 2, 3>>
    /\ eq_args.efficiency = Half /\ eq_args.dwell = Half
    /\ eq_args.flowrate = QInt(4) /\ eq_args.response_factor = QInt(2)
    /\ eq_args.mass_fraction = Half
    /\ eq_ret = <<QInt(1), QInt(2), QInt(3)>>

NebulisationReturned == eq_pc = "nebulisation_efficiency_from_mass"

TestEfficiencyCall ==
    /\ eq_args.signal = <<10, 20, 30>>
    /\ eq_args.mass = QInt(10) /\ eq_args.response_factor = QInt(20)
    /\ eq_args.mass_fraction = Half
    /\ eq_args.dwell = QInt(10) /\ eq_args.flowrate = QInt(2)

\* the value of the docstring's formula (m * s) / (I * f * t * V)
DocstringEfficiency ==
    Frac(<<eq_args.mass, eq_args.response_factor>>,
         <<q_mean(eq_args.signal), eq_args.mass_fraction, eq_args.dwell,
           eq_args.flowrate>>)

C30_CorrectionOnlyBelowFive ==
    poi_pc = "returned" =>
        /\ poi_ub < 5 * Scale =>
              poi_ret.sc = (233 * np_sqrt(poi_ub + poi_epsilon)) \div 100
        /\ poi_ub >= 5 * Scale =>
              poi_ret.sc = (233 * np_sqrt(poi_ub)) \div 100
        /\ (/\ poi_epsilon = DefaultEpsilon
            /\ 2 * poi_ub > 9 * Scale
            /\ poi_ub < 5 * Scale) =>
              /\ poi_ret.sc > poisson_limits(5 * Scale, DefaultEpsilon).sc
              /\ poi_ret.sd > poisson_limits(5 * Scale, DefaultEpsilon).sd

\* the call returned for a mean between 4.5 and 5.0 with the default epsilon
C30_Witness ==
    /\ poi_pc = "returned"
    /\ poi_epsilon = DefaultEpsilon
    /\ 2 * poi_ub > 9 * Scale /\ poi_ub < 5 * Scale
    /\ poi_ret.sd > poisson_limits(5 * Scale, DefaultEpsilon).sd

\* ------------------------------------------- claims about the stages of a job
\* the last signal the worker emitted
LastEmitted(e) == e[Len(e)]

\* one step of the worker keeps the order of the stages
StageOrder ==
    /\ (run_pc' = "process" /\ run_pc # "process") => run_pc = "loop"
    /\ (run_pc' = "detect" /\ run_pc # "detect") =>
          run_pc = "process" /\ file_kind[job] = "data"
    /\ (run_pc' = "calibrate" /\ run_pc # "calibrate") =>
          run_pc = "detect" /\ results'.present
    /\ (run_pc' = "export" /\ run_pc # "export") =>
          run_pc = "calibrate" /\ results'.present
    /\ (Len(emitted') = Len(emitted) + 1
           /\ LastEmitted(emitted')[1] = "processComplete") =>
          /\ run_pc = "export"
          /\ LastEmitted(emitted')[2] = infiles[job]
          /\ infiles[job] \in written'
    /\ (written' # written /\ written' # {}) =>
          run_pc = "export" /\ written' = written \cup {infiles[job]}

\* a job that was reported failed, or that an exception ended, wrote no file
FailedWroteNothing ==
    \A j \in 1..Len(infiles) :
        (Reports(j, {"processFailed"}) >= 1 \/ (run_pc = "crashed" /\ job = j)) =>
            infiles[j] \notin written

OneWorkerStep ==
    /\ batches' # batches =>
          /\ thread = "None"
          /\ ~isRunning
          /\ thread' = "ProcessThread"
          /\ batches' = batches + 1
    /\ (thread # "None" /\ thread' = "None") => (Terminated /\ batches' = batches)
    /\ (thread # "None" /\ interruption' # interruption) =>
          /\ interruption'
          /\ isRunning
          /\ UNCHANGED <<thread, batches, run_pc, job, emitted>>

\* C29: at most one batch worker exists at a time: a press of the button
\* while a worker runs only requests its interruption, and a new worker is
\* started only when the worker reference is None, which finishProcess makes
\* it after the thread has finished.
C29_AtMostOneWorker ==
    /\ [](isRunning => thread = "ProcessThread")
    /\ [](thread = "None" => run_pc \in {"notstarted", "finished", "crashed"})
    /\ [][OneWorkerStep]_vars

\* a second batch is running, started after the first one ended, and its
\* cancellation has been requested
C29_Witness ==
    /\ batches >= 2
    /\ thread = "ProcessThread"
    /\ isRunning
    /\ interruption

\* ------------------------------------------- claims about the windowed limits
RECURSIVE Reflect(_, _)
\* the sample that position j (1-based, possibly outside 1..N) of the signal
\* reflected about its first and last sample shows
Reflect(j, N) ==
    IF N = 1 THEN 1
    ELSE IF j < 1 THEN Reflect(2 - j, N)
    ELSE IF j > N THEN Reflect(2 * N - j, N)
    ELSE j

\* the window of width w that starts w \div 2 samples before sample i
WindowAt(i, w) ==
    [k \in 1..w |-> responses[Reflect(i - (w \div 2) + k - 1, Len(responses))]]

\* C27: in windowed mode (window >= 2, odd or even) calculate_limits returns
\* mean, lc and ld of exactly the signal's length, and the i-th baseline is
\* the rolling statistic (median for "Gaussian Median", mean otherwise) of
\* the reflect-padded signal over the window of width `window` that starts
\* window // 2 samples before sample i; the Gaussian limit uses the standard
\* deviation of the same window.
C27_WindowedBaseline ==
    (Returned /\ ~window.none /\ window.n >= 2) =>
        /\ lim_ret.windowed
        /\ Len(lim_ret.limits.mean) = Len(responses)
        /\ Len(lim_ret.limits.lc) = Len(responses)
        /\ Len(lim_ret.limits.ld) = Len(responses)
        /\ \A i \in 1..Len(responses) :
              /\ lim_ret.limits.mean[i] =
                     (IF HasMedian(lim_ret.method)
                      THEN np_median(WindowAt(i, window.n))
                      ELSE np_mean(WindowAt(i, window.n)))
              /\ HasGaussian(lim_ret.method) =>
                     lim_ret.limits.ld[i] =
                         lim_ret.limits.mean[i] + sigma * np_std(WindowAt(i, window.n))

\* windowed limits with an even window over a signal whose baseline varies
C27_Witness ==
    /\ Returned
    /\ lim_ret.windowed
    /\ window.n = 2
    /\ Len(responses) >= 3
    /\ lim_ret.limits.mean[1] # lim_ret.limits.mean[Len(responses)]
    /\ responses[1] # responses[2]

\* ------------------------------------------ claims about the rolling functions
\* the i-th window x[i .. i+n-1] (1-based i)
RollWindow(i) == SubSeq(roll_x, i, i + roll_n - 1)

\* how often v occurs in the sequence q
Occurrences(q, v) == Cardinality({k \in 1..Len(q) : q[k] = v})

\* q is sorted and holds the values of w, each as often as w does
SortedPermutation(q, w) ==
    /\ Len(q) = Len(w)
    /\ \A k \in 1..(Len(q) - 1) : q[k] <= q[k + 1]
    /\ \A v \in RollValues : Occurrences(q, v) = Occurrences(w, v)

\* the k-th smallest value of w (k from 1)
KthSmallest(w, k) ==
    CHOOSE v \in RollValues :
        /\ Cardinality({j \in 1..Len(w) : w[j] < v}) < k
        /\ Cardinality({j \in 1..Len(w) : w[j] <= v}) >= k

\* twice the median of w: the middle value counted twice for an odd length,
\* the sum of the two middle values for an even one
TwiceMedian(w) ==
    IF Len(w) % 2 = 1
    THEN 2 * KthSmallest(w, (Len(w) + 1) \div 2)
    ELSE KthSmallest(w, Len(w) \div 2) + KthSmallest(w, Len(w) \div 2 + 1)

\* C25: moving_median(x, n), 1 <= n <= len(x), returns len(x) - n + 1 values,
\* the i-th the median of the window x[i .. i+n-1]; throughout the scan the
\* list `sort` is sorted, has n elements and is a permutation of the
\* current window.
C25_MovingMedian ==
    /\ roll_pc = "median_loop" =>
          /\ med_start <= Len(roll_x) - roll_n
          /\ SortedPermutation(med_sort, RollWindow(med_start + 1))
          /\ Len(med_r) = med_start
    /\ roll_pc = "moving_median" =>
          /\ Len(roll_ret) = Len(roll_x) - roll_n + 1
          /\ \A i \in 1..Len(roll_ret) :
                roll_ret[i] = (TwiceMedian(RollWindow(i)) * Scale) \div 2
          /\ roll_ret = moving_median(roll_x, roll_n)

\* the median returned for an even window that slid over several unequal
\* samples, a repeated value among them
C25_Witness ==
    /\ roll_pc = "moving_median"
    /\ roll_n = 2
    /\ Len(roll_x) = 4
    /\ roll_x[1] = roll_x[2] /\ roll_x[2] # roll_x[3] /\ roll_x[4] < roll_x[3]
    /\ Len(roll_ret) = 3

\* the sum and the sum of squares of the i-th window
WindowSum(i) == SumOver(roll_x, i..(i + roll_n - 1))
WindowSquares(i) == SumOver([k \in 1..Len(roll_x) |-> roll_x[k] * roll_x[k]],
                            i..(i + roll_n - 1))

\* C26: moving_mean(x, n), 1 <= n <= len(x), returns len(x) - n + 1 values,
\* the i-th the sum of the window x[i .. i+n-1] divided by n; moving_std has the
\* same length and its i-th value is the square root of the population
\* variance (mean of squares minus squared mean) of the same window.
C26_MovingMeanAndStd ==
    /\ roll_pc = "moving_mean" =>
          /\ Len(roll_ret) = Len(roll_x) - roll_n + 1
          /\ \A i \in 1..Len(roll_ret) :
                /\ roll_ret[i] = (WindowSum(i) * Scale) \div roll_n
                /\ roll_ret[i] * roll_n <= WindowSum(i) * Scale
                /\ WindowSum(i) * Scale < (roll_ret[i] + 1) * roll_n
    /\ roll_pc = "moving_std" =>
          /\ Len(roll_ret) = Len(roll_x) - roll_n + 1
          /\ \A i \in 1..Len(roll_ret) :
                LET v == (((roll_n * WindowSquares(i) - WindowSum(i) * WindowSum(i))
                              * Scale) \div (roll_n * roll_n)) * Scale
                IN  /\ roll_ret[i] * roll_ret[i] <= v
                    /\ v < (roll_ret[i] + 1) * (roll_ret[i] + 1)

\* the rolling mean of a window of several samples that slid over an array of
\* unequal samples
C26_Witness ==
    /\ roll_pc = "moving_mean"
    /\ roll_n >= 2
    /\ Len(roll_ret) >= 2
    /\ roll_ret[1] # roll_ret[2]

\* ----------------------------------------- claims about sizes and results
\* C21: particle_size is the inverse of reference_particle_mass at fixed
\* density: particle_size(reference_particle_mass(density, d), density) = d,
\* for the functions of spcal and for those of nanopart.
C21_SizeInvertsReferenceMass ==
    eq_pc \in {"particle_size", "util_particle_size"} =>
        eq_ret = [q |-> eq_args.diameter, pi |-> 0, cbrt |-> FALSE]

\* the keys every result has, and those of the efficiency model alone
CommonKeys == {"masses", "sizes", "background_size", "lod", "lod_mass", "lod_size"}
EfficiencyKeys == {"concentration", "number_concentration", "background_concentration"}

\* the mass response that stands for the efficiency inputs
EquivalentMassResponse ==
    QDiv(QMul(QMul(eq_args.dwelltime, eq_args.uptake), eq_args.efficiency),
         eq_args.response)

\* C22 as stated: the result of either model holds mass, size, concentration,
\* LOD-in-mass and LOD-in-size.
C22_BothHoldConcentration ==
    eq_pc \in {"results_from_mass_response", "results_from_nebulisation_efficiency"} =>
        {"masses", "sizes", "concentration", "lod_mass", "lod_size"} \subseteq DOMAIN eq_ret

\* C22 (amended): on the same detection sums the result of either model
\* holds masses, sizes, background_size, lod, lod_mass and lod_size, one
\* mass and size per detection and one LOD mass and size per limit; the
\* concentrations are in the result of the efficiency model only; with
\* mass_response = dwelltime * uptake * efficiency / response the two
\* results agree on every common quantity.
C22_CommonQuantities ==
    /\ eq_pc = "results_from_mass_response" =>
          /\ DOMAIN eq_ret = CommonKeys
          /\ Len(eq_ret.masses) = Len(eq_args.detections)
          /\ Len(eq_ret.sizes) = Len(eq_args.detections)
          /\ Len(eq_ret.lod_mass) = Len(eq_ret.lod)
          /\ Len(eq_ret.lod_size) = Len(eq_ret.lod)
          /\ eq_args.massresponse = EquivalentMassResponse =>
                \A k \in CommonKeys :
                    eq_ret[k] = results_from_nebulisation_efficiency(
                                    eq_args.detections, eq_args.background, eq_args.lod,
                                    eq_args.density, eq_args.dwelltime,
                                    eq_args.efficiency, eq_args.massfraction,
                                    eq_args.uptake, eq_args.response, eq_args.time)[k]
    /\ eq_pc = "results_from_nebulisation_efficiency" =>
          /\ DOMAIN eq_ret = CommonKeys \cup EfficiencyKeys
          /\ Len(eq_ret.masses) = Len(eq_args.detections)
          /\ Len(eq_ret.sizes) = Len(eq_args.detections)
          /\ Len(eq_ret.lod_mass) = Len(eq_ret.lod)
          /\ Len(eq_ret.lod_size) = Len(eq_ret.lod)

\* the mass-response result of several detections, for a mass response that
\* stands for the efficiency inputs
C22_Witness ==
    /\ eq_pc = "results_from_mass_response"
    /\ Len(eq_args.detections) >= 2
    /\ eq_args.massresponse = EquivalentMassResponse
    /\ eq_args.lod.ndarray

\* the limits that the result reports: the float, or the minimum, maximum,
\* mean (as sum and count) and median (as twice the median) of the array
LodHolds(lods, lod) ==
    IF ~lod.ndarray THEN lods = <<QInt(lod.v[1])>>
    ELSE LET n == Len(lod.v)
             below(x) == Cardinality({j \in 1..n : lod.v[j] < x})
             upto(x) == Cardinality({j \in 1..n : lod.v[j] <= x})
             kth(k) == CHOOSE x \in {lod.v[j] : j \in 1..n} : below(x) < k /\ upto(x) >= k
         IN  /\ Len(lods) = 4
             /\ lods[1] = QInt(kth(1))
             /\ lods[2] = QInt(kth(n))
             /\ lods[3][1] * n = SumOver(lod.v, 1..n) * lods[3][2]
             /\ lods[4][1] * 2 = (kth((n + 1) \div 2) + kth(n \div 2 + 1)) * lods[4][2]

\* C23: under the mass-response model the mass of every detection is
\* sum * mass_response / mass_fraction, and the LOD in mass is
\* lod * mass_response / mass_fraction; efficiency, flow rate and response
\* factor are not among the inputs.
C23_MassResponseFactor ==
    eq_pc = "results_from_mass_response" =>
        /\ Len(eq_ret.masses) = Len(eq_args.detections)
        /\ \A i \in 1..Len(eq_ret.masses) :
              eq_ret.masses[i][1] * eq_args.massfraction[1] * eq_args.massresponse[2]
                  = eq_args.detections[i] * eq_args.massresponse[1]
                      * eq_args.massfraction[2] * eq_ret.masses[i][2]
        /\ LodHolds(eq_ret.lod, eq_args.lod)
        /\ Len(eq_ret.lod_mass) = Len(eq_ret.lod)
        /\ \A k \in 1..Len(eq_ret.lod_mass) :
              eq_ret.lod_mass[k][1] * eq_args.massfraction[1] * eq_args.massresponse[2]
                      * eq_ret.lod[k][2]
                  = eq_ret.lod[k][1] * eq_args.massresponse[1]
                      * eq_args.massfraction[2] * eq_ret.lod_mass[k][2]

\* the masses of several unequal detections and of an array of limits, for a
\* mass fraction other than one
C23_Witness ==
    /\ eq_pc = "results_from_mass_response"
    /\ Len(eq_args.detections) >= 2
    /\ eq_args.detections[1] # eq_args.detections[2]
    /\ eq_args.massfraction # QInt(1)
    /\ eq_args.lod.ndarray
    /\ Len(eq_ret.lod_mass) = 4

====
